---------------------------- MODULE Spec2Model ----------------------------
(***************************************************************************)
(* A model of gen-go-code.py, the generator of kitty's Go sources: the     *)
(* type mapper (go_field_type), the template renderer (replace), the       *)
(* command compiler (go_code_for_remote_command) and the whole run (main   *)
(* with replace_if_needed).                                                *)
(*                                                                         *)
(* Text is modelled as follows.  A dotted type token is the sequence of    *)
(* its '.'-separated segments ("list.dict.str" is <<"list","dict","str">>),*)
(* so that str.split('.', 1) is Head/Tail.  A snake_case name is the       *)
(* sequence of its '_'-separated words.  Go type strings are TLA+ strings  *)
(* built by concatenation, as the code builds them.                        *)
(***************************************************************************)
EXTENDS Integers, Sequences, FiniteSets, TLC

VARIABLES
    \* go_field_type, one frame of the recursion per step
    ty_token,       \* the token go_field_type was called with
    ty_rest,        \* json_field_type of the innermost call in progress
    ty_prefix,      \* what the enclosing calls will put in front of its result
    ty_res,         \* the outcome: [err, val]
    \* replace, one marker of the mapping per step
    rp_orig,        \* the template replace was called with
    rp_kw,          \* the mapping, in insertion order: a sequence of [k, v]
    rp_template,    \* the local variable template
    rp_i,           \* how many markers the loop has processed
    rp_done,        \* whether replace has returned
    \* go_code_for_remote_command, its arguments and locals
    cc_cmd,         \* the command: name, options, protocol_spec, ...
    cc_pc,          \* where the call is
    cc_option_map,  \* the keys of option_map
    cc_af, cc_od,   \* option registrations and declarations
    cc_json_fields, cc_field_types, cc_jd,
    cc_jc,          \* the value-binding statements
    cc_handled_fields, cc_unhandled, cc_used_options,
    cc_result,      \* what the call ended in
    \* main
    run_env,        \* what the run reads
    run_pc,         \* the place in Steps of the step in progress
    run_status,     \* "running", "done" or "failed"
    run_in_unit,    \* whether the body of a with replace_if_needed block runs
    run_code,       \* the local variable code of update_at_commands
    files,          \* the output tree: path -> [exists, data]
    changed,        \* the module's list of rewritten paths
    sys_stdout,     \* what sys.stdout is: "console" or "buf"
    console,        \* what was printed on the console
    run_n,          \* which run of the generator this is
    run_prev,       \* how the run before ended
    files0,         \* the output tree when this run started
    run_new,        \* path -> the content this run rendered for it
    run_raised      \* the exception that ended the run

tyVars == <<ty_token, ty_rest, ty_prefix, ty_res>>
rpVars == <<rp_orig, rp_kw, rp_template, rp_i, rp_done>>
ccVars == <<cc_cmd, cc_pc, cc_option_map, cc_af, cc_od, cc_json_fields,
            cc_field_types, cc_jd, cc_jc, cc_handled_fields, cc_unhandled, cc_used_options, cc_result>>
runVars == <<run_env, run_pc, run_status, run_in_unit, run_code, files, changed,
             sys_stdout, console, run_n, run_prev, files0, run_new, run_raised>>
vars == <<tyVars, rpVars, ccVars, runVars>>
otherThanTy == <<rpVars, ccVars, runVars>>
otherThanRp == <<tyVars, ccVars, runVars>>
otherThanCc == <<tyVars, rpVars, runVars>>
otherThanRun == <<tyVars, rpVars, ccVars>>

(***************************************************************************)
(* Type Mapper: json_field_types and go_field_type                         *)
(***************************************************************************)

\* Depth of the dotted type tokens drawn as inputs.
MaxTypeDepth == 3

TypeSegments == {"list", "dict", "str", "int", "choices", "set", ""}

RECURSIVE SeqsUpTo(_, _)
SeqsUpTo(S, n) ==
    IF n = 0 THEN {<<>>}
    ELSE LET shorter == SeqsUpTo(S, n - 1)
         IN  shorter \cup {Append(s, x) : s \in {t \in shorter : Len(t) = n - 1}, x \in S}

TypeTokens == SeqsUpTo(TypeSegments, MaxTypeDepth) \ {<<>>}

json_field_types_no_containers ==
    (<<"bool">> :> "bool") @@ (<<"str">> :> "escaped_string")
    @@ (<<"float">> :> "float64") @@ (<<"int">> :> "int")
    @@ (<<"scroll_amount">> :> "any") @@ (<<"spacing">> :> "any")
    @@ (<<"colors">> :> "any")

json_field_types ==
    (<<"bool">> :> "bool") @@ (<<"str">> :> "escaped_string")
    @@ (<<"list", "str">> :> "[]escaped_string")
    @@ (<<"dict", "str">> :> "map[escaped_string]escaped_string")
    @@ (<<"float">> :> "float64") @@ (<<"int">> :> "int")
    @@ (<<"scroll_amount">> :> "any") @@ (<<"spacing">> :> "any")
    @@ (<<"colors">> :> "any")

\* {'list': '[]', 'dict': 'map[string]'}
container_prefix == ("list" :> "[]") @@ ("dict" :> "map[string]")

NoErr == "none"
Pending == "pending"
TypeErr == "TypeError: Unknown JSON field type"
KeyErr == "KeyError"

TyOk(v) == [err |-> NoErr, val |-> v]
TyFail(e) == [err |-> e, val |-> ""]

\* json_field_type.startswith('choices.')
StartsWithChoices(t) == Len(t) >= 2 /\ t[1] = "choices"

\* '.' in json_field_type
HasDot(t) == Len(t) >= 2

RECURSIVE go_field_type(_)
go_field_type(t) ==
    IF t \in DOMAIN json_field_types THEN TyOk(json_field_types[t])
    ELSE IF StartsWithChoices(t) THEN TyOk("string")
    ELSE IF HasDot(t) THEN
        LET p == Head(t)
            r == Tail(t)
        IN  IF p \notin DOMAIN container_prefix THEN TyFail(KeyErr)
            ELSE LET inner == go_field_type(r)
                 IN  IF inner.err # NoErr THEN inner
                     ELSE TyOk(container_prefix[p] \o inner.val)
    ELSE TyFail(TypeErr)

\* The same function, one call frame per step.
TyInit ==
    /\ ty_token \in TypeTokens
    /\ ty_rest = ty_token
    /\ ty_prefix = ""
    /\ ty_res = TyFail(Pending)

TyIdle ==
    /\ ty_token = <<>>
    /\ ty_rest = <<>>
    /\ ty_prefix = ""
    /\ ty_res = TyFail(NoErr)

TyRunning == ty_res.err = Pending

\* q = json_field_types.get(json_field_type); if q: return q
TyExact ==
    /\ UNCHANGED otherThanTy
    /\ TyRunning
    /\ ty_rest \in DOMAIN json_field_types
    /\ ty_res' = TyOk(ty_prefix \o json_field_types[ty_rest])
    /\ UNCHANGED <<ty_token, ty_rest, ty_prefix>>

\* if json_field_type.startswith('choices.'): return 'string'
TyChoices ==
    /\ UNCHANGED otherThanTy
    /\ TyRunning
    /\ ty_rest \notin DOMAIN json_field_types
    /\ StartsWithChoices(ty_rest)
    /\ ty_res' = TyOk(ty_prefix \o "string")
    /\ UNCHANGED <<ty_token, ty_rest, ty_prefix>>

\* p, r = json_field_type.split('.', 1); p = {...}[p]; return p + go_field_type(r)
TySplit ==
    /\ UNCHANGED otherThanTy
    /\ TyRunning
    /\ ty_rest \notin DOMAIN json_field_types
    /\ ~StartsWithChoices(ty_rest)
    /\ HasDot(ty_rest)
    /\ Head(ty_rest) \in DOMAIN container_prefix
    /\ ty_prefix' = ty_prefix \o container_prefix[Head(ty_rest)]
    /\ ty_rest' = Tail(ty_rest)
    /\ UNCHANGED <<ty_token, ty_res>>

\* {...}[p] with p neither 'list' nor 'dict'
TyBadPrefix ==
    /\ UNCHANGED otherThanTy
    /\ TyRunning
    /\ ty_rest \notin DOMAIN json_field_types
    /\ ~StartsWithChoices(ty_rest)
    /\ HasDot(ty_rest)
    /\ Head(ty_rest) \notin DOMAIN container_prefix
    /\ ty_res' = TyFail(KeyErr)
    /\ UNCHANGED <<ty_token, ty_rest, ty_prefix>>

\* raise TypeError(f'Unknown JSON field type: {json_field_type}')
TyUnknown ==
    /\ UNCHANGED otherThanTy
    /\ TyRunning
    /\ ty_rest \notin DOMAIN json_field_types
    /\ ~StartsWithChoices(ty_rest)
    /\ ~HasDot(ty_rest)
    /\ ty_res' = TyFail(TypeErr)
    /\ UNCHANGED <<ty_token, ty_rest, ty_prefix>>

TyNext == TyExact \/ TyChoices \/ TySplit \/ TyBadPrefix \/ TyUnknown

(***************************************************************************)
(* Template Renderer: replace                                              *)
(***************************************************************************)

\* Lengths of the templates and fragments drawn as inputs, in characters.
MaxTemplateLen == 3
MaxFragmentLen == 1

\* Text is a sequence of characters; "A" and "B" are the markers.
RpAlphabet == {"A", "B", "x"}
RpMarkers == {<<"A">>, <<"B">>}

RpTemplates == SeqsUpTo(RpAlphabet, MaxTemplateLen)
RpFragments == SeqsUpTo(RpAlphabet, MaxFragmentLen)

\* Keyword arguments: distinct keys, in the order they were passed.
RpMappings ==
    {<<>>}
    \cup {<<[k |-> k1, v |-> v1]>> : k1 \in RpMarkers, v1 \in RpFragments}
    \cup {kw \in {<<[k |-> k1, v |-> v1], [k |-> k2, v |-> v2]>> :
                    k1 \in RpMarkers, k2 \in RpMarkers,
                    v1 \in RpFragments, v2 \in RpFragments} :
            kw[1].k # kw[2].k}

\* str.replace(old, new) for a non-empty old: the non-overlapping occurrences
\* of old, found from the left, are replaced; the text put in is not rescanned.
RECURSIVE str_replace(_, _, _)
str_replace(s, old, new) ==
    IF Len(s) < Len(old) THEN s
    ELSE IF SubSeq(s, 1, Len(old)) = old
         THEN new \o str_replace(SubSeq(s, Len(old) + 1, Len(s)), old, new)
         ELSE <<Head(s)>> \o str_replace(Tail(s), old, new)

\* for k, v in kw.items(): template = template.replace(k, v)
RECURSIVE replace(_, _)
replace(template, kw) ==
    IF kw = <<>> THEN template
    ELSE replace(str_replace(template, Head(kw).k, Head(kw).v), Tail(kw))

RpInit ==
    /\ rp_orig \in RpTemplates
    /\ rp_kw \in RpMappings
    /\ rp_template = rp_orig
    /\ rp_i = 0
    /\ rp_done = FALSE

RpIdle ==
    /\ rp_orig = <<>>
    /\ rp_kw = <<>>
    /\ rp_template = <<>>
    /\ rp_i = 0
    /\ rp_done = TRUE

\* One iteration of the loop over kw.items().
RpSubstitute ==
    /\ UNCHANGED otherThanRp
    /\ ~rp_done
    /\ rp_i < Len(rp_kw)
    /\ rp_template' = str_replace(rp_template, rp_kw[rp_i + 1].k, rp_kw[rp_i + 1].v)
    /\ rp_i' = rp_i + 1
    /\ UNCHANGED <<rp_orig, rp_kw, rp_done>>

\* return template
RpReturn ==
    /\ UNCHANGED otherThanRp
    /\ ~rp_done
    /\ rp_i = Len(rp_kw)
    /\ rp_done' = TRUE
    /\ UNCHANGED <<rp_orig, rp_kw, rp_template, rp_i>>

RpNext == RpSubstitute \/ RpReturn

\* What the loop returns is replace(template, kw).
RpAgrees == rp_done => rp_template = replace(rp_orig, rp_kw)

\* The simultaneous substitution of all markers in a template: the template
\* is scanned once, every marker occurrence gives way to its fragment, and
\* the fragments are not scanned.
RECURSIVE Simultaneous(_, _)
Simultaneous(s, kw) ==
    IF s = <<>> THEN <<>>
    ELSE LET hits == {i \in 1..Len(kw) :
                        /\ Len(kw[i].k) <= Len(s)
                        /\ SubSeq(s, 1, Len(kw[i].k)) = kw[i].k}
         IN  IF hits = {} THEN <<Head(s)>> \o Simultaneous(Tail(s), kw)
             ELSE LET i == CHOOSE j \in hits : \A h \in hits : j <= h
                  IN  kw[i].v \o Simultaneous(SubSeq(s, Len(kw[i].k) + 1, Len(s)), kw)

\* C10: substitution is literal and non-recursive: text inserted for one
\* marker is never rewritten by the substitution of another marker, so the
\* output equals the simultaneous substitution of all markers in the
\* original template.
C10_EqualsSimultaneous ==
    rp_done => rp_template = Simultaneous(rp_orig, rp_kw)

\* What does hold: the output is the simultaneous substitution whenever no
\* fragment contains a marker of the mapping.
RpFragmentsMarkerFree ==
    \A i \in 1..Len(rp_kw) : \A j \in 1..Len(rp_kw) :
        \A n \in 1..Len(rp_kw[i].v) : <<rp_kw[i].v[n]>> # rp_kw[j].k

RpSimultaneousIfMarkerFree ==
    (rp_done /\ RpFragmentsMarkerFree) => rp_template = Simultaneous(rp_orig, rp_kw)

(***************************************************************************)
(* JSON Field Model and Command Compiler: JSONField and                    *)
(* go_code_for_remote_command                                              *)
(*                                                                         *)
(* A line of a protocol specification, a field name and a type are         *)
(* sequences of lexemes: words and the separators "_", ".", "+", "/", ":". *)
(* The field line `match_window+/list.str: doc` is                         *)
(* <<"match","_","window","+","/","list",".","str",":","doc">>.            *)
(***************************************************************************)

\* Number of lines of a protocol specification drawn as input.
MaxFields == 2

\* ''.join(parts)
RECURSIVE Concat(_)
Concat(parts) == IF parts = <<>> THEN "" ELSE Head(parts) \o Concat(Tail(parts))

\* sep.join(items), as a sequence of pieces
RECURSIVE JoinWith(_, _)
JoinWith(items, sep) ==
    IF items = <<>> THEN <<>>
    ELSE IF Len(items) = 1 THEN items
    ELSE <<Head(items), sep>> \o JoinWith(Tail(items), sep)

\* The place of the first x in s, 0 when there is none.
FirstIndex(s, x) ==
    IF \E i \in 1..Len(s) : s[i] = x
    THEN CHOOSE i \in 1..Len(s) : s[i] = x /\ \A j \in 1..(i - 1) : s[j] # x
    ELSE 0

\* s.split(sep): the strings between the separators
RECURSIVE SplitOn(_, _)
SplitOn(s, sep) ==
    LET i == FirstIndex(s, sep)
    IN  IF i = 0 THEN <<Concat(s)>>
        ELSE <<Concat(SubSeq(s, 1, i - 1))>> \o SplitOn(SubSeq(s, i + 1, Len(s)), sep)

\* x[0].upper() + x[1:] and x.capitalize(), word by word
Words == {"", "a", "match", "window", "aB"}
UpperFirst == [w \in Words |->
    CASE w = "a" -> "A" [] w = "match" -> "Match" [] w = "window" -> "Window"
      [] w = "aB" -> "AB" [] OTHER -> ""]
Capitalize == [w \in Words |->
    CASE w = "a" -> "A" [] w = "match" -> "Match" [] w = "window" -> "Window"
      [] w = "aB" -> "Ab" [] OTHER -> ""]

RECURSIVE MapSeq(_, _)
MapSeq(f, s) == IF s = <<>> THEN <<>> ELSE <<f[Head(s)]>> \o MapSeq(f, Tail(s))

\* oq[0].upper() + oq[1:]: only the first word is capitalized
CamelCaseFirstWordOnly(oq) == UpperFirst[Head(oq)] \o Concat(Tail(oq))

\* ''.join(x.capitalize() for x in oq.split('_'))
CamelCase(oq) == Concat(MapSeq(Capitalize, SplitOn(oq, "_")))

ValueErr == "ValueError"
SysExit == "SystemExit"

\* JSONField.__init__ without self.field = self.field[:-1]
JSONFieldKeepsPlus(line) ==
    LET field_def == SubSeq(line, 1, FirstIndex(line, ":") - 1)
        slash == FirstIndex(field_def, "/")
        before == SubSeq(field_def, 1, slash - 1)
        required == before # <<>> /\ before[Len(before)] = "+"
    IN  IF slash = 0 THEN [err |-> ValueErr]
        ELSE [err |-> NoErr,
              field |-> before,
              field_type |-> SubSeq(field_def, slash + 1, Len(field_def)),
              required |-> required,
              struct_field_name |-> UpperFirst[Head(before)] \o Concat(Tail(before))]

\* JSONField.__init__
JSONField(line) ==
    LET field_def == SubSeq(line, 1, FirstIndex(line, ":") - 1)
        slash == FirstIndex(field_def, "/")
        before == SubSeq(field_def, 1, slash - 1)
        required == before # <<>> /\ before[Len(before)] = "+"
        field == IF required THEN SubSeq(before, 1, Len(before) - 1) ELSE before
    IN  IF slash = 0 THEN [err |-> ValueErr]
        ELSE [err |-> NoErr,
              field |-> field,
              field_type |-> SubSeq(field_def, slash + 1, Len(field_def)),
              required |-> required,
              struct_field_name |-> UpperFirst[Head(field)] \o Concat(Tail(field))]

\* JSONField.go_declaration (the quoting of the json tag is left out)
go_declaration(f) ==
    LET t == go_field_type(SplitOn(f.field_type, "."))
    IN  IF t.err # NoErr THEN t
        ELSE TyOk(f.struct_field_name \o " " \o t.val
                  \o " json:" \o Concat(f.field) \o ",omitempty")

ReservedOptions == {"NoResponse", "ResponseTimeout"}
MatchWindowField == <<"match", "_", "window">>
SendText == <<"send", "_", "text">>

\* The loop over cmd.protocol_spec.splitlines(): the fields, their types and
\* their declarations, or the first exception a line raises.
RECURSIVE ParseSpec(_, _)
ParseSpec(lines, acc) ==
    IF lines = <<>> THEN acc
    ELSE LET line == Head(lines)
         IN  IF FirstIndex(line, ":") = 0 THEN ParseSpec(Tail(lines), acc)
             ELSE LET f == JSONField(line)
                  IN  IF f.err # NoErr THEN [acc EXCEPT !.err = f.err]
                      ELSE LET d == go_declaration(f)
                           IN  IF d.err # NoErr
                               THEN [acc EXCEPT !.err = d.err]
                               ELSE ParseSpec(Tail(lines),
                                    [err |-> NoErr,
                                     json_fields |-> Append(acc.json_fields, f),
                                     field_types |-> (f.field :> f.field_type) @@ acc.field_types,
                                     jd |-> Append(acc.jd, d.val)])

ParseStart == [err |-> NoErr, json_fields |-> <<>>, field_types |-> <<>>, jd |-> <<>>]

\* A value-binding statement `payload.<lhs> = <fn>(<src>)`: fn is "" for a
\* plain assignment, src is "options" for options_<name>.<opt>.
Stmt(lhs, fn, src, opt) == [lhs |-> lhs, fn |-> fn, src |-> src, opt |-> opt]

\* The right-hand side for a matched option, by field type.
BindingPlainOnly(field, o) == Stmt(field.struct_field_name, "", "options", o)

Binding(field, o) ==
    IF field.field_type = <<"str">>
    THEN Stmt(field.struct_field_name, "escaped_string", "options", o)
    ELSE IF field.field_type = <<"list", ".", "str">>
    THEN Stmt(field.struct_field_name, "escape_list_of_strings", "options", o)
    ELSE IF field.field_type = <<"dict", ".", "str">>
    THEN Stmt(field.struct_field_name, "escape_dict_of_strings", "options", o)
    ELSE Stmt(field.struct_field_name, "", "options", o)

\* The right-hand side the match_window exception emits.
MatchBinding(field, o) ==
    IF field.field_type = <<"str">>
    THEN Stmt(field.struct_field_name, "escaped_string", "options", o)
    ELSE Stmt(field.struct_field_name, "", "options", o)

\* (cmd.field_to_option_map or {}).get(field.field, field.field), then CamelCase
OptionName(cmd, field) ==
    CamelCase(IF field.field \in DOMAIN cmd.field_to_option_map
              THEN cmd.field_to_option_map[field.field]
              ELSE field.field)

\* unhandled[field.field] = field: a dict keeps the place of a key it has
PutUnhandled(unhandled, field) ==
    IF \E i \in 1..Len(unhandled) : unhandled[i].field = field.field
    THEN [i \in 1..Len(unhandled) |->
            IF unhandled[i].field = field.field THEN field ELSE unhandled[i]]
    ELSE Append(unhandled, field)

\* The loop over json_fields.
RECURSIVE BindFields(_, _, _, _, _)
BindFields(cmd, option_map, handled_fields, fields, acc) ==
    IF fields = <<>> THEN acc
    ELSE LET field == Head(fields)
             oq == OptionName(cmd, field)
             next ==
                IF oq \in option_map
                THEN [acc EXCEPT !.used_options = @ \cup {oq},
                                 !.jc = Append(@, Binding(field, oq))]
                ELSE IF field.field \in handled_fields THEN acc
                ELSE [acc EXCEPT !.unhandled = PutUnhandled(@, field)]
         IN  BindFields(cmd, option_map, handled_fields, Tail(fields), next)

\* The loop over tuple(unhandled): the match_window exception.
MatchWindowAlways(option_map, fields, acc) ==
    LET hit == {i \in 1..Len(acc.unhandled) :
                    acc.unhandled[i].field = MatchWindowField}
    IN  IF hit = {} \/ "Match" \notin option_map THEN acc
        ELSE LET i == CHOOSE j \in hit : TRUE
             IN  [used_options |-> acc.used_options \cup {"Match"},
                  jc |-> Append(acc.jc, MatchBinding(acc.unhandled[i], "Match")),
                  unhandled |-> SubSeq(acc.unhandled, 1, i - 1)
                                \o SubSeq(acc.unhandled, i + 1, Len(acc.unhandled))]

\* The same loop without the test x == 'match_window'.
RECURSIVE MatchWindowAnyField(_, _, _)
MatchWindowAnyField(option_map, fields, acc) ==
    IF fields = <<>> THEN acc
    ELSE LET x == Head(fields).field
             i == CHOOSE j \in 1..Len(acc.unhandled) : acc.unhandled[j].field = x
             next ==
                IF "Match" \in option_map /\ "Match" \notin acc.used_options
                THEN [used_options |-> acc.used_options \cup {"Match"},
                      jc |-> Append(acc.jc, MatchBinding(acc.unhandled[i], "Match")),
                      unhandled |-> SubSeq(acc.unhandled, 1, i - 1)
                                    \o SubSeq(acc.unhandled, i + 1, Len(acc.unhandled))]
                ELSE acc
         IN  MatchWindowAnyField(option_map, Tail(fields), next)

RECURSIVE MatchWindow(_, _, _)
MatchWindow(option_map, fields, acc) ==
    IF fields = <<>> THEN acc
    ELSE LET x == Head(fields).field
             i == CHOOSE j \in 1..Len(acc.unhandled) : acc.unhandled[j].field = x
             next ==
                IF /\ x = MatchWindowField
                   /\ "Match" \in option_map
                   /\ "Match" \notin acc.used_options
                THEN [used_options |-> acc.used_options \cup {"Match"},
                      jc |-> Append(acc.jc, MatchBinding(acc.unhandled[i], "Match")),
                      unhandled |-> SubSeq(acc.unhandled, 1, i - 1)
                                    \o SubSeq(acc.unhandled, i + 1, Len(acc.unhandled))]
                ELSE acc
         IN  MatchWindow(option_map, Tail(fields), next)

\* set(option_map) - used_options - {'NoResponse', 'ResponseTimeout'}
UnusedOptionsNoWaiver(name, option_map, used_options) ==
    (option_map \ used_options) \ ReservedOptions

UnusedOptions(name, option_map, used_options) ==
    IF name = SendText THEN {}
    ELSE (option_map \ used_options) \ ReservedOptions

FieldNames(fields) == [i \in 1..Len(fields) |-> fields[i].field]

Range(s) == {s[i] : i \in 1..Len(s)}

\* cmd.args.as_go_code(name, field_types, handled_fields): the argument
\* collaborator binds the fields it fills from the positional arguments and
\* marks them handled.
ArgsAsGoCode(cmd) ==
    [i \in 1..Len(cmd.args_fields) |->
        Stmt(UpperFirst[Head(cmd.args_fields[i])] \o Concat(Tail(cmd.args_fields[i])),
             "", "args", "")]

ArgsHandledFields(cmd) == Range(cmd.args_fields)

\* GoOption.as_option('ans') and GoOption.struct_declaration()
AsOption(o) == "ans.Add(" \o o \o ")"
StructDeclaration(o) == o \o " option"

\* The loop over rc_command_options(name).
RECURSIVE DeclareOptions(_, _)
DeclareOptions(options, acc) ==
    IF options = <<>> THEN acc
    ELSE LET o == Head(options)
         IN  DeclareOptions(Tail(options),
                [option_map |-> acc.option_map \cup {o},
                 af |-> Append(acc.af, AsOption(o)),
                 od |-> IF o \in ReservedOptions THEN acc.od
                        ELSE Append(acc.od, StructDeclaration(o))])

\* The text of a value-binding statement.
StmtText(name, s) ==
    LET rhs == IF s.src = "args" THEN "args"
               ELSE "options_" \o Concat(name) \o "." \o s.opt
    IN  "payload." \o s.lhs \o " = "
        \o (IF s.fn = "" THEN rhs ELSE s.fn \o "(" \o rhs \o ")")

\* tools/cmd/at/template.go: the build tag, then text that names every marker.
TemplateGo ==
    <<"//go:build exclude", "\n", "// ", "__FILE__", "\n",
      "CMD_NAME", " ", "CLI_NAME", " ", "SHORT_DESC", " ", "LONG_DESC", "\n",
      "IS_ASYNC", " ", "NO_RESPONSE_BASE", " ", "WAIT_TIMEOUT", " ",
      "STRING_RESPONSE_IS_ERROR", " ", "STREAM_WANTED", " ", "ARGSPEC", "\n",
      "OPTIONS_DECLARATION_CODE", "\n", "JSON_DECLARATION_CODE", "\n",
      "JSON_INIT_CODE", "\n", "ADD_FLAGS_CODE", "\n", "CMD_NAME">>

GoBool(b) == IF b THEN "true" ELSE "false"

KW(k, v) == [k |-> <<k>>, v |-> v]

\* name.replace('_', '-')
CliName(name) == [i \in 1..Len(name) |-> IF name[i] = "_" THEN "-" ELSE name[i]]

\* ans = replace(template, CMD_NAME=name, ...), after the build tag is cut
Render(cmd, template, af, od, jd, jc) ==
    replace(<<"\n">> \o Tail(template),
        <<KW("CMD_NAME", <<Concat(cmd.name)>>),
          KW("__FILE__", <<"gen-go-code.py">>),
          KW("CLI_NAME", <<Concat(CliName(cmd.name))>>),
          KW("SHORT_DESC", <<cmd.short_desc>>),
          KW("LONG_DESC", <<cmd.desc>>),
          KW("IS_ASYNC", <<GoBool(cmd.is_asynchronous)>>),
          KW("NO_RESPONSE_BASE", <<"false">>),
          KW("ADD_FLAGS_CODE", JoinWith(af, "\n")),
          KW("WAIT_TIMEOUT", <<cmd.response_timeout>>),
          KW("OPTIONS_DECLARATION_CODE", JoinWith(od, "\n")),
          KW("JSON_DECLARATION_CODE", JoinWith(jd, "\n")),
          KW("JSON_INIT_CODE",
             JoinWith([i \in 1..Len(jc) |-> StmtText(cmd.name, jc[i])], "\n")),
          KW("ARGSPEC", IF cmd.argspec = "" THEN <<>> ELSE <<" ", cmd.argspec>>),
          KW("STRING_RESPONSE_IS_ERROR", <<GoBool(cmd.string_return_is_error)>>),
          KW("STREAM_WANTED", <<GoBool(cmd.reads_streaming_data)>>)>>)

\* What a call of go_code_for_remote_command ends in: the source text, or the
\* exception with what its message names.
Returned(text) ==
    [err |-> NoErr, what |-> "", fields |-> <<>>, options |-> {}, cmd |-> <<>>,
     text |-> text]
Raised(e) ==
    [err |-> e, what |-> "", fields |-> <<>>, options |-> {}, cmd |-> <<>>,
     text |-> <<>>]
\* SystemExit(f'Cant map fields: {", ".join(unhandled)} for cmd: {name}')
CantMapFields(unhandled, name) ==
    [err |-> SysExit, what |-> "Cant map fields", fields |-> FieldNames(unhandled),
     options |-> {}, cmd |-> name, text |-> <<>>]
\* SystemExit(f'Unused options: {", ".join(unused_options)} for command: {name}')
UnusedOptionsExit(unused_options, name) ==
    [err |-> SysExit, what |-> "Unused options", fields |-> <<>>,
     options |-> unused_options, cmd |-> name, text |-> <<>>]

BindStart(jc0) == [jc |-> jc0, used_options |-> {}, unhandled |-> <<>>]

\* Lines 265-289: the two checks, then the rendering.
CheckAndRender(cmd, template, o, p, m) ==
    IF p.err # NoErr THEN Raised(p.err)
    ELSE IF m.unhandled # <<>> THEN CantMapFields(m.unhandled, cmd.name)
    ELSE IF UnusedOptions(cmd.name, o.option_map, m.used_options) # {}
         THEN UnusedOptionsExit(UnusedOptions(cmd.name, o.option_map, m.used_options),
                                cmd.name)
    ELSE Returned(Render(cmd, template, o.af, o.od, p.jd, m.jc))

\* Lines 255-264: the match_window exception, over what the loop left unhandled.
AfterBindFields(cmd, template, o, p, b) ==
    CheckAndRender(cmd, template, o, p, MatchWindow(o.option_map, b.unhandled, b))

\* Lines 231-254: the args collaborator's statements, then the binding loop.
AfterParseSpec(cmd, template, o, p) ==
    AfterBindFields(cmd, template, o, p,
        BindFields(cmd, o.option_map, ArgsHandledFields(cmd), p.json_fields,
                   BindStart(ArgsAsGoCode(cmd))))

go_code_for_remote_command(cmd, template) ==
    AfterParseSpec(cmd, template,
        DeclareOptions(cmd.options, [option_map |-> {}, af |-> <<>>, od |-> <<>>]),
        ParseSpec(cmd.protocol_spec, ParseStart))

\* The commands drawn as inputs.
LinePool ==
    {<<"a", "/", "str", ":", "doc">>,
     <<"a", "+", "/", "int", ":", "doc">>,
     <<"match", "/", "list", ".", "str", ":", "doc">>,
     <<"match", "_", "window", "/", "str", ":", "doc">>,
     <<"match", "_", "window", "/", "dict", ".", "str", ":", "doc">>,
     <<"match", "/", "bogus", ":", "doc">>,
     <<"comment">>}

OptionPool == <<"A", "Match", "MatchWindow", "NoResponse", "ResponseTimeout">>
OptionSets ==
    {S \cup R : S \in SUBSET {"A", "Match", "MatchWindow"}, R \in {{}, ReservedOptions}}

RECURSIVE Select(_, _)
Select(s, S) ==
    IF s = <<>> THEN <<>>
    ELSE (IF Head(s) \in S THEN <<Head(s)>> ELSE <<>>) \o Select(Tail(s), S)

FieldToOptionMaps == {<<>>, MatchWindowField :> <<"match">>}
ArgsFields == {<<>>, <<<<"a">>>>}
CommandNames == {SendText, <<"ls">>}

MkCmd(name, options, lines, fmap, args_fields) ==
    [name |-> name, options |-> options, protocol_spec |-> lines,
     field_to_option_map |-> fmap, args_fields |-> args_fields,
     short_desc |-> "short", desc |-> "long", is_asynchronous |-> FALSE,
     response_timeout |-> "10.0", argspec |-> "", string_return_is_error |-> FALSE,
     reads_streaming_data |-> FALSE]

Commands ==
    {MkCmd(n, Select(OptionPool, S), l, f, a) :
        n \in CommandNames, S \in OptionSets,
        l \in SeqsUpTo(LinePool, MaxFields), f \in FieldToOptionMaps, a \in ArgsFields}

CcInit ==
    /\ cc_cmd \in Commands
    /\ cc_pc = "options"
    /\ cc_option_map = {}
    /\ cc_af = <<>>
    /\ cc_od = <<>>
    /\ cc_json_fields = <<>>
    /\ cc_field_types = <<>>
    /\ cc_jd = <<>>
    /\ cc_jc = <<>>
    /\ cc_handled_fields = {}
    /\ cc_unhandled = <<>>
    /\ cc_used_options = {}
    /\ cc_result = Raised(Pending)

CcIdle ==
    /\ cc_cmd = MkCmd(<<"ls">>, <<>>, <<>>, <<>>, <<>>)
    /\ cc_pc = "done"
    /\ cc_option_map = {}
    /\ cc_af = <<>>
    /\ cc_od = <<>>
    /\ cc_json_fields = <<>>
    /\ cc_field_types = <<>>
    /\ cc_jd = <<>>
    /\ cc_jc = <<>>
    /\ cc_handled_fields = {}
    /\ cc_unhandled = <<>>
    /\ cc_used_options = {}
    /\ cc_result = Raised(NoErr)

\* lines 209-219: the option declarations and registrations
CcDeclareOptions ==
    /\ UNCHANGED otherThanCc
    /\ cc_pc = "options"
    /\ LET o == DeclareOptions(cc_cmd.options, [option_map |-> {}, af |-> <<>>, od |-> <<>>])
       IN  /\ cc_option_map' = o.option_map
           /\ cc_af' = o.af
           /\ cc_od' = o.od
    /\ cc_pc' = "parse"
    /\ UNCHANGED <<cc_cmd, cc_json_fields, cc_field_types, cc_jd, cc_jc, cc_handled_fields, cc_unhandled,
                   cc_used_options, cc_result>>

\* lines 220-230: the fields; an unknown type raises out of the compiler
CcParseSpec ==
    /\ UNCHANGED otherThanCc
    /\ cc_pc = "parse"
    /\ LET p == ParseSpec(cc_cmd.protocol_spec, ParseStart)
       IN  IF p.err # NoErr
           THEN /\ cc_result' = Raised(p.err)
                /\ cc_pc' = "done"
                /\ UNCHANGED <<cc_json_fields, cc_field_types, cc_jd>>
           ELSE /\ cc_json_fields' = p.json_fields
                /\ cc_field_types' = p.field_types
                /\ cc_jd' = p.jd
                /\ cc_pc' = "args"
                /\ UNCHANGED cc_result
    /\ UNCHANGED <<cc_cmd, cc_option_map, cc_af, cc_od, cc_jc, cc_handled_fields, cc_unhandled, cc_used_options>>

\* lines 231-233: the argument collaborator goes first
CcArgs ==
    /\ UNCHANGED otherThanCc
    /\ cc_pc = "args"
    /\ cc_jc' = ArgsAsGoCode(cc_cmd)
    /\ cc_handled_fields' = ArgsHandledFields(cc_cmd)
    /\ cc_pc' = "bind"
    /\ UNCHANGED <<cc_cmd, cc_option_map, cc_af, cc_od, cc_json_fields, cc_field_types, cc_jd, cc_unhandled,
                   cc_used_options, cc_result>>

\* lines 235-254: every field is bound, skipped as handled, or queued
CcBindFields ==
    /\ UNCHANGED otherThanCc
    /\ cc_pc = "bind"
    /\ LET b == BindFields(cc_cmd, cc_option_map, cc_handled_fields, cc_json_fields, BindStart(cc_jc))
       IN  /\ cc_jc' = b.jc
           /\ cc_used_options' = b.used_options
           /\ cc_unhandled' = b.unhandled
    /\ cc_pc' = "match_window"
    /\ UNCHANGED <<cc_cmd, cc_option_map, cc_af, cc_od, cc_json_fields, cc_field_types, cc_jd,
                   cc_handled_fields, cc_result>>

\* lines 255-264: the match_window exception
CcMatchWindow ==
    /\ UNCHANGED otherThanCc
    /\ cc_pc = "match_window"
    /\ LET m == MatchWindow(cc_option_map, cc_unhandled,
                    [jc |-> cc_jc, used_options |-> cc_used_options, unhandled |-> cc_unhandled])
       IN  /\ cc_jc' = m.jc
           /\ cc_used_options' = m.used_options
           /\ cc_unhandled' = m.unhandled
    /\ cc_pc' = "check"
    /\ UNCHANGED <<cc_cmd, cc_option_map, cc_af, cc_od, cc_json_fields, cc_field_types, cc_jd,
                   cc_handled_fields, cc_result>>

\* lines 265-266
CcCantMap ==
    /\ UNCHANGED otherThanCc
    /\ cc_pc = "check"
    /\ cc_unhandled # <<>>
    /\ cc_result' = CantMapFields(cc_unhandled, cc_cmd.name)
    /\ cc_pc' = "done"
    /\ UNCHANGED <<cc_cmd, cc_option_map, cc_af, cc_od, cc_json_fields, cc_field_types, cc_jd, cc_jc,
                   cc_handled_fields, cc_unhandled, cc_used_options>>

\* lines 267-270
CcUnusedOptions ==
    /\ UNCHANGED otherThanCc
    /\ cc_pc = "check"
    /\ cc_unhandled = <<>>
    /\ UnusedOptions(cc_cmd.name, cc_option_map, cc_used_options) # {}
    /\ cc_result' = UnusedOptionsExit(UnusedOptions(cc_cmd.name, cc_option_map, cc_used_options),
                                      cc_cmd.name)
    /\ cc_pc' = "done"
    /\ UNCHANGED <<cc_cmd, cc_option_map, cc_af, cc_od, cc_json_fields, cc_field_types, cc_jd, cc_jc,
                   cc_handled_fields, cc_unhandled, cc_used_options>>

\* lines 272-289
CcRender ==
    /\ UNCHANGED otherThanCc
    /\ cc_pc = "check"
    /\ cc_unhandled = <<>>
    /\ UnusedOptions(cc_cmd.name, cc_option_map, cc_used_options) = {}
    /\ cc_result' = Returned(Render(cc_cmd, TemplateGo, cc_af, cc_od, cc_jd, cc_jc))
    /\ cc_pc' = "done"
    /\ UNCHANGED <<cc_cmd, cc_option_map, cc_af, cc_od, cc_json_fields, cc_field_types, cc_jd, cc_jc,
                   cc_handled_fields, cc_unhandled, cc_used_options>>

CcNext ==
    \/ CcDeclareOptions \/ CcParseSpec \/ CcArgs \/ CcBindFields \/ CcMatchWindow
    \/ CcCantMap \/ CcUnusedOptions \/ CcRender

\* The steps compute go_code_for_remote_command.
CcAgrees == cc_pc = "done" => cc_result = go_code_for_remote_command(cc_cmd, TemplateGo)

(***************************************************************************)
(* The whole run: main, update_completion, update_at_commands,             *)
(* kitten_clis, wrapped_kittens and replace_if_needed                      *)
(*                                                                         *)
(* A run is the sequence of steps main takes; run_pc is the place of the   *)
(* step in progress.  A file is [exists, data], data a sequence of pieces  *)
(* of text.  run_env holds what the run reads: the remote commands, the    *)
(* wrapper script, the kittens' docs, the template and the ref map.        *)
(***************************************************************************)

\* Number of remote commands, of wrapped kittens, and of runs of the generator.
NumCommands == 2
NumKittens == 2
MaxRuns == 2

CmdName(i) == <<"cmd", ToString(i)>>
KittenName(i) == IF i % 2 = 0 THEN <<"kitten", "_", ToString(i)>> ELSE <<"kitten", ToString(i)>>

LineA == <<"a", "/", "str", ":", "doc">>
LineBogus == <<"match", "/", "bogus", ":", "doc">>

\* command_for_name(name) for the i-th name of all_command_names()
RunCommand(env, i) ==
    IF env.fail_at # i THEN MkCmd(CmdName(i), <<"A">>, <<LineA>>, <<>>, <<>>)
    ELSE IF env.fail_kind = "unresolved field"
         THEN MkCmd(CmdName(i), <<>>, <<LineA>>, <<>>, <<>>)
    ELSE IF env.fail_kind = "unused option"
         THEN MkCmd(CmdName(i), <<"A", "Match">>, <<LineA>>, <<>>, <<>>)
    ELSE MkCmd(CmdName(i), <<"Match">>, <<LineBogus>>, <<>>, <<>>)

FailKinds == {"unresolved field", "unused option", "unknown type"}

Unit(what, i) == [kind |-> "unit", what |-> what, i |-> i]
Step(kind, i) == [kind |-> kind, what |-> "", i |-> i]

RECURSIVE AtCommandSteps(_)
AtCommandSteps(n) ==
    IF n = 0 THEN <<>>
    ELSE AtCommandSteps(n - 1) \o <<Step("compile", n), Unit("at_cmd", n)>>

RECURSIVE KittenSteps(_)
KittenSteps(n) == IF n = 0 THEN <<>> ELSE KittenSteps(n - 1) \o <<Unit("kitten", n)>>

MainUnits == <<Unit("constants", 0), Unit("color_names", 0), Unit("readline", 0),
               Unit("spinners", 0)>>
UpdateCompletion == <<Unit("completion", 0), Unit("launch", 0)>>
UpdateAtCommands ==
    <<Step("template", 0)>> \o AtCommandSteps(NumCommands) \o <<Unit("global_opts", 0)>>
KittenClis == <<Step("wrapped_kittens", 0)>> \o KittenSteps(NumKittens)

\* main
Steps ==
    MainUnits \o UpdateCompletion \o UpdateAtCommands \o KittenClis \o <<Step("print", 0)>>

\* The destination of a unit.
UnitPath(u) ==
    CASE u.what = "constants" -> "constants_generated.go"
      [] u.what = "color_names" -> "tools/utils/style/color-names_generated.go"
      [] u.what = "readline" -> "tools/tui/readline/actions_generated.go"
      [] u.what = "spinners" -> "tools/tui/spinners_generated.go"
      [] u.what = "completion" -> "tools/cmd/completion/kitty_generated.go"
      [] u.what = "launch" -> "tools/cmd/edit_in_kitty/launch_generated.go"
      [] u.what = "at_cmd" -> "tools/cmd/at/cmd_" \o Concat(CmdName(u.i)) \o "_generated.go"
      [] u.what = "global_opts" -> "tools/cmd/at/global_opts_generated.go"
      [] u.what = "kitten" -> "tools/cmd/" \o Concat(KittenName(u.i)) \o "/cli_generated.go"

UnitSteps == {k \in 1..Len(Steps) : Steps[k].kind = "unit"}
Paths == {UnitPath(Steps[k]) : k \in UnitSteps}

FileNotFound == "FileNotFoundError"
NoneTypeErr == "TypeError: 'NoneType' object is not subscriptable"

\* What the body of a unit's with-block leaves in the buffer, or what it raises.
UnitBody(env, u, code) ==
    CASE u.what = "constants" ->
            IF env.ref_map_present THEN TyOk(<<"package kitty", "RefMap">>)
            ELSE [err |-> FileNotFound, val |-> <<>>]
      [] u.what = "color_names" -> TyOk(<<"package style", "ColorNames">>)
      [] u.what = "readline" -> TyOk(<<"package readline", "Action">>)
      [] u.what = "spinners" -> TyOk(<<"package tui", "NewSpinner">>)
      [] u.what = "completion" -> TyOk(<<"package completion", "kitty">>)
      [] u.what = "launch" -> TyOk(<<"package edit_in_kitty", "AddCloneSafeOpts">>)
      [] u.what = "at_cmd" -> TyOk(code)
      [] u.what = "global_opts" -> TyOk(<<"package at", "rc_global_options">>)
      [] u.what = "kitten" ->
            IF env.nodocs = u.i
            THEN [err |-> NoneTypeErr,
                  val |-> <<"package ", Concat(KittenName(u.i)), "create_cmd", "Name: ">>]
            ELSE TyOk(<<"package ", Concat(KittenName(u.i)), "create_cmd", "Name: ",
                        "ShortDescription: ", "Run: ">>
                      \o (IF FirstIndex(KittenName(u.i), "_") # 0
                          THEN <<"Hidden: true,">> ELSE <<>>)
                      \o <<"})">>
                      \o (IF FirstIndex(KittenName(u.i), "_") # 0
                          THEN <<"clone := root.AddClone(ans.Group, ans)">> ELSE <<>>)
                      \o <<"type Options struct">>)

\* f'// Code generated by {os.path.basename(__file__)}; DO NOT EDIT.\n\n'
Banner == "// Code generated by gen-go-code.py; DO NOT EDIT.\n\n"

File(data) == [exists |-> TRUE, data |-> data]
Missing == [exists |-> FALSE, data |-> <<>>]

\* orig = ''; with suppress(FileNotFoundError), open(path, 'r') as f: orig = f.read()
ReadOrig(file) == IF file.exists THEN file.data ELSE <<>>

\* The buffer compared as it is, before the banner is put in front of it.
ContentChangedBeforeBanner(orig, buf) == orig # buf

\* new = banner + buf.getvalue(); if orig != new
ContentChanged(orig, buf) == orig # <<Banner>> \o buf

\* changed.append(path)
ChangedAppend(list, path) == Append(list, path)

\* What each kind of disk holds for a unit before the first run.
DiskKinds == {"missing", "stale", "current", "mixed"}

InitialFile(env, k) ==
    LET u == Steps[k]
        code == IF u.what = "at_cmd"
                THEN go_code_for_remote_command(RunCommand(env, u.i), TemplateGo).text
                ELSE <<>>
        body == UnitBody(env, u, code)
        current == env.disk = "current" \/ (env.disk = "mixed" /\ k % 2 = 0)
    IN  IF env.disk = "missing" THEN Missing
        ELSE IF current /\ body.err = NoErr /\ (u.what = "at_cmd" => code # <<>>)
             THEN File(<<Banner>> \o body.val)
        ELSE File(<<Banner, "stale">>)

RunEnvs ==
    {e \in [disk : DiskKinds,
            fail_at : 0..NumCommands,
            fail_kind : FailKinds,
            wrapper : {"absent", "no wrapped_kittens line", "ok"},
            nodocs : 0..NumKittens,
            template_present : BOOLEAN,
            ref_map_present : BOOLEAN] :
        e.fail_at = 0 => e.fail_kind = "unresolved field"}

RunInit ==
    /\ run_env \in RunEnvs
    /\ run_pc = 1
    /\ run_status = "running"
    /\ run_in_unit = FALSE
    /\ run_code = <<>>
    /\ files = [p \in Paths |->
                    InitialFile(run_env, CHOOSE k \in UnitSteps : UnitPath(Steps[k]) = p)]
    /\ changed = <<>>
    /\ sys_stdout = "console"
    /\ console = <<>>
    /\ run_n = 1
    /\ run_prev = "none"
    /\ files0 = files
    /\ run_new = [p \in {} |-> <<>>]
    /\ run_raised = NoErr

RunIdle ==
    /\ run_env = [disk |-> "missing"]
    /\ run_pc = 1
    /\ run_status = "done"
    /\ run_in_unit = FALSE
    /\ run_code = <<>>
    /\ files = <<>>
    /\ changed = <<>>
    /\ sys_stdout = "console"
    /\ console = <<>>
    /\ run_n = MaxRuns
    /\ run_prev = "none"
    /\ files0 = <<>>
    /\ run_new = <<>>
    /\ run_raised = NoErr

Running == run_status = "running" /\ run_pc <= Len(Steps)
AtStep(kind) == Running /\ Steps[run_pc].kind = kind

\* An exception nothing catches ends the run.
Abort(e) ==
    /\ run_status' = "failed"
    /\ run_raised' = e
    /\ UNCHANGED run_pc

\* replace_if_needed up to the yield: buf = io.StringIO(); sys.stdout = buf
ReplaceIfNeededEnter ==
    /\ UNCHANGED otherThanRun
    /\ AtStep("unit")
    /\ ~run_in_unit
    /\ run_in_unit' = TRUE
    /\ sys_stdout' = "buf"
    /\ UNCHANGED <<run_env, run_pc, run_status, run_code, files, changed, console, run_n,
                   run_prev, files0, run_new, run_raised>>

\* The body returns: sys.stdout = origb, then the file is read, compared and,
\* when it differs, recorded in changed and written.
ReplaceIfNeededExit ==
    /\ UNCHANGED otherThanRun
    /\ AtStep("unit")
    /\ run_in_unit
    /\ LET u == Steps[run_pc]
           path == UnitPath(u)
           body == UnitBody(run_env, u, run_code)
       IN  /\ body.err = NoErr
           /\ run_new' = (path :> <<Banner>> \o body.val) @@ run_new
           /\ IF ContentChanged(ReadOrig(files[path]), body.val)
              THEN /\ changed' = ChangedAppend(changed, path)
                   /\ files' = [files EXCEPT ![path] = File(<<Banner>> \o body.val)]
              ELSE UNCHANGED <<changed, files>>
    /\ sys_stdout' = "console"
    /\ run_in_unit' = FALSE
    /\ run_code' = <<>>
    /\ run_pc' = run_pc + 1
    /\ UNCHANGED <<run_env, run_status, console, run_n, run_prev, files0, run_raised>>

\* The body raises in a replace_if_needed without try/finally around the yield.
ReplaceIfNeededRaiseNoFinally ==
    /\ UNCHANGED otherThanRun
    /\ AtStep("unit")
    /\ run_in_unit
    /\ LET body == UnitBody(run_env, Steps[run_pc], run_code)
       IN  /\ body.err # NoErr
           /\ Abort(body.err)
    /\ run_in_unit' = FALSE
    /\ UNCHANGED <<run_env, run_code, files, changed, sys_stdout, console, run_n, run_prev,
                   files0, run_new>>

\* The body raises: the finally clause restores sys.stdout and the exception
\* leaves replace_if_needed, and main, before the file is read.
ReplaceIfNeededRaise ==
    /\ UNCHANGED otherThanRun
    /\ AtStep("unit")
    /\ run_in_unit
    /\ LET body == UnitBody(run_env, Steps[run_pc], run_code)
       IN  /\ body.err # NoErr
           /\ Abort(body.err)
    /\ sys_stdout' = "console"
    /\ run_in_unit' = FALSE
    /\ UNCHANGED <<run_env, run_code, files, changed, console, run_n, run_prev, files0,
                   run_new>>

\* update_at_commands: with open('tools/cmd/at/template.go') as f
ReadTemplate ==
    /\ UNCHANGED otherThanRun
    /\ AtStep("template")
    /\ IF run_env.template_present
       THEN /\ run_pc' = run_pc + 1
            /\ UNCHANGED <<run_status, run_raised>>
       ELSE Abort(FileNotFound)
    /\ UNCHANGED <<run_env, run_in_unit, run_code, files, changed, sys_stdout, console,
                   run_n, run_prev, files0, run_new>>

\* update_at_commands: code = go_code_for_remote_command(name, cmd, template)
CompileCommand ==
    /\ UNCHANGED otherThanRun
    /\ AtStep("compile")
    /\ LET r == go_code_for_remote_command(RunCommand(run_env, Steps[run_pc].i), TemplateGo)
       IN  IF r.err = NoErr
           THEN /\ run_code' = r.text
                /\ run_pc' = run_pc + 1
                /\ UNCHANGED <<run_status, run_raised>>
           ELSE /\ Abort(IF r.err = SysExit THEN r.what ELSE r.err)
                /\ UNCHANGED run_code
    /\ UNCHANGED <<run_env, run_in_unit, files, changed, sys_stdout, console, run_n,
                   run_prev, files0, run_new>>

\* kitten_clis: for kitten in wrapped_kittens()
WrappedKittens ==
    /\ UNCHANGED otherThanRun
    /\ AtStep("wrapped_kittens")
    /\ IF run_env.wrapper = "ok"
       THEN /\ run_pc' = run_pc + 1
            /\ UNCHANGED <<run_status, run_raised>>
       ELSE Abort(IF run_env.wrapper = "absent" THEN FileNotFound
                  ELSE "Exception: Failed to read wrapped kittens")
    /\ UNCHANGED <<run_env, run_in_unit, run_code, files, changed, sys_stdout, console,
                   run_n, run_prev, files0, run_new>>

\* main: print(json.dumps(changed, indent=2))
PrintChanged ==
    /\ UNCHANGED otherThanRun
    /\ AtStep("print")
    /\ console' = Append(console, changed)
    /\ run_pc' = run_pc + 1
    /\ run_status' = "done"
    /\ UNCHANGED <<run_env, run_in_unit, run_code, files, changed, sys_stdout, run_n,
                   run_prev, files0, run_new, run_raised>>

\* The generator is run again, over the same inputs and the files as they are.
RunAgain ==
    /\ UNCHANGED otherThanRun
    /\ run_status # "running"
    /\ run_n < MaxRuns
    /\ run_n' = run_n + 1
    /\ run_prev' = run_status
    /\ run_status' = "running"
    /\ run_pc' = 1
    /\ changed' = <<>>
    /\ console' = <<>>
    /\ files0' = files
    /\ run_new' = [p \in {} |-> <<>>]
    /\ run_raised' = NoErr
    /\ UNCHANGED <<run_env, run_in_unit, run_code, files, sys_stdout>>

RunNext ==
    \/ ReplaceIfNeededEnter \/ ReplaceIfNeededExit \/ ReplaceIfNeededRaise
    \/ ReadTemplate \/ CompileCommand \/ WrappedKittens \/ PrintChanged \/ RunAgain

(***************************************************************************)
(* Specifications                                                          *)
(***************************************************************************)

InitType == TyInit /\ RpIdle /\ CcIdle /\ RunIdle
NextType == TyNext
SpecType == InitType /\ [][NextType]_vars

InitReplace == RpInit /\ TyIdle /\ CcIdle /\ RunIdle
NextReplace == RpNext
SpecReplace == InitReplace /\ [][NextReplace]_vars

InitCompile == CcInit /\ TyIdle /\ RpIdle /\ RunIdle
NextCompile == CcNext
SpecCompile == InitCompile /\ [][NextCompile]_vars

InitRun == RunInit /\ TyIdle /\ RpIdle /\ CcIdle
NextRun == RunNext
SpecRun == InitRun /\ [][NextRun]_vars

\* The step machine computes go_field_type.
TyAgrees == ~TyRunning => ty_res = go_field_type(ty_token)

\* The grammar of the tokens that resolve: the exact-match table, a `choices.`
\* prefix, or a `list.`/`dict.` prefix followed by a token that resolves.
RECURSIVE Resolvable(_)
Resolvable(t) ==
    \/ t \in DOMAIN json_field_types_no_containers
    \/ t \in {<<"list", "str">>, <<"dict", "str">>}
    \/ StartsWithChoices(t)
    \/ HasDot(t) /\ Head(t) \in {"list", "dict"} /\ Resolvable(Tail(t))

\* No silent default: a token yields a type string exactly when it resolves,
\* and a failure is one of the two exceptions.
TyNoSilentDefault ==
    ~TyRunning =>
        /\ Resolvable(ty_token) <=> ty_res.err = NoErr
        /\ ~Resolvable(ty_token) => ty_res \in {TyFail(TypeErr), TyFail(KeyErr)}

\* C8: every token that does not resolve (not in the exact-match table, not
\* prefixed `choices.`, not a `list.`/`dict.` prefix with a resolvable
\* remainder) fails with the "unknown type" error, dotted tokens whose prefix
\* is neither `list` nor `dict` included.
C8_UnresolvableRaisesUnknownType ==
    (~TyRunning /\ ~Resolvable(ty_token)) => ty_res = TyFail(TypeErr)

ListDictStr == <<"list", "dict", "str">>

\* C9 as stated: `list.dict.str` is the sequence-of wrapper applied to the
\* mapping-from-string wrapper applied to the resolution of `str`.
C9_SplitRuleTwice ==
    (ty_token = ListDictStr /\ ~TyRunning) =>
        ty_res = TyOk(container_prefix["list"] \o container_prefix["dict"]
                      \o json_field_types[<<"str">>])

\* C9 amended: `list.dict.str` is split once into `list` and `dict.str`; the
\* remainder `dict.str` is found in the exact-match table (it is never split,
\* the remainder `str` is never reached) and the result is
\* `[]map[escaped_string]escaped_string`.
C9_SplitOnceThenExact ==
    ty_token = ListDictStr =>
        /\ ty_rest \in {ListDictStr, <<"dict", "str">>}
        /\ ty_prefix \in {"", "[]"}
        /\ ~TyRunning =>
            /\ ty_rest = <<"dict", "str">>
            /\ ty_prefix = "[]"
            /\ ty_res = TyOk("[]map[escaped_string]escaped_string")

C9_Witness == ty_token = ListDictStr /\ ty_res.err = NoErr

(***************************************************************************)
(* Properties of the Command Compiler                                      *)
(***************************************************************************)

CcDone == cc_pc = "done"

\* The fields a command declares: one per line with a colon, in order.
RECURSIVE DeclaredFields(_)
DeclaredFields(lines) ==
    IF lines = <<>> THEN <<>>
    ELSE (IF FirstIndex(Head(lines), ":") = 0 THEN <<>> ELSE <<JSONField(Head(lines))>>)
         \o DeclaredFields(Tail(lines))

AllTypesResolve(c) ==
    \A f \in Range(DeclaredFields(c.protocol_spec)) :
        Resolvable(SplitOn(f.field_type, "."))

\* Name normalization as the specification states it: the rename table, then
\* snake_case to CamelCase.
SnakeToCamel ==
    (<<"a">> :> "A") @@ (<<"match">> :> "Match") @@ (MatchWindowField :> "MatchWindow")

NormalizedName(c, f) ==
    SnakeToCamel[IF f.field \in DOMAIN c.field_to_option_map
                 THEN c.field_to_option_map[f.field] ELSE f.field]

Declared(c) == Range(c.options)

\* The options some field normalizes to.
MatchedOptions(c) ==
    {o \in Declared(c) :
        \E f \in Range(DeclaredFields(c.protocol_spec)) : NormalizedName(c, f) = o}

\* A field that matches no option and that the arguments do not handle.
Unmatched(c, f) ==
    /\ NormalizedName(c, f) \notin Declared(c)
    /\ f.field \notin Range(c.args_fields)

\* The match_window exception applies: Match is declared and no field's own
\* binding has used it.
MatchFree(c) == "Match" \in Declared(c) /\ "Match" \notin MatchedOptions(c)

\* The names of the fields nothing resolves.
UnresolvedFields(c) ==
    {f.field : f \in {g \in Range(DeclaredFields(c.protocol_spec)) :
                        /\ Unmatched(c, g)
                        /\ ~(g.field = MatchWindowField /\ MatchFree(c))}}

\* The options a field binding consumes, the exception's binding included.
ConsumedOptions(c) ==
    MatchedOptions(c)
    \cup (IF /\ MatchFree(c)
             /\ \E f \in Range(DeclaredFields(c.protocol_spec)) :
                    f.field = MatchWindowField /\ Unmatched(c, f)
          THEN {"Match"} ELSE {})

UnconsumedOptions(c) == (Declared(c) \ ConsumedOptions(c)) \ ReservedOptions

\* C1: when the field types all resolve and some field is matched by no
\* option, not handled by the arguments and not taken by the match_window
\* exception, compilation aborts with the error that names every such field
\* and the command, and returns no source text.
C1_UnresolvedFieldsAbort ==
    (CcDone /\ AllTypesResolve(cc_cmd) /\ UnresolvedFields(cc_cmd) # {}) =>
        /\ cc_result.err = SysExit
        /\ cc_result.what = "Cant map fields"
        /\ Range(cc_result.fields) = UnresolvedFields(cc_cmd)
        /\ cc_result.cmd = cc_cmd.name
        /\ cc_result.text = <<>>

C1_Witness ==
    /\ CcDone
    /\ AllTypesResolve(cc_cmd)
    /\ Cardinality(UnresolvedFields(cc_cmd)) >= 2
    /\ MatchWindowField \in Range(cc_cmd.args_fields) \cup UnresolvedFields(cc_cmd)
    /\ cc_result.what = "Cant map fields"

\* C2 as stated, for the commands whose field types resolve: for a command
\* other than send_text, whatever else its field list holds, an unconsumed
\* option that is not reserved makes compilation fail with an error that names
\* that option; for send_text unused options never cause the failure.
C2_UnusedOptionAlwaysNamed ==
    (CcDone /\ AllTypesResolve(cc_cmd)) =>
        /\ (cc_cmd.name # SendText /\ UnconsumedOptions(cc_cmd) # {}) =>
                /\ cc_result.err = SysExit
                /\ UnconsumedOptions(cc_cmd) \subseteq cc_result.options
        /\ cc_cmd.name = SendText => cc_result.what # "Unused options"

\* C2 amended: for a command other than send_text with an unconsumed option
\* that is not reserved, compilation fails; when every field type resolves and
\* no field is left unresolved the error is the unused-option error and names
\* exactly the unconsumed options that are not reserved, otherwise the
\* unknown-type or the unresolved-field error comes first and names no
\* option.  For send_text the unused-option error is never raised.
C2_UnusedOptionNamedUnlessEarlierError ==
    CcDone =>
        /\ (cc_cmd.name # SendText /\ UnconsumedOptions(cc_cmd) # {}) =>
                /\ cc_result.err # NoErr
                /\ cc_result.text = <<>>
                /\ IF AllTypesResolve(cc_cmd) /\ UnresolvedFields(cc_cmd) = {}
                   THEN /\ cc_result.err = SysExit
                        /\ cc_result.what = "Unused options"
                        /\ cc_result.options = UnconsumedOptions(cc_cmd)
                        /\ cc_result.cmd = cc_cmd.name
                   ELSE /\ cc_result.what # "Unused options"
                        /\ cc_result.options = {}
        /\ cc_cmd.name = SendText => cc_result.what # "Unused options"

C2_Witness ==
    /\ CcDone
    /\ cc_cmd.name # SendText
    /\ cc_result.what = "Unused options"
    /\ cc_result.options # {}
    /\ ReservedOptions \subseteq Declared(cc_cmd)
    /\ cc_json_fields # <<>>

\* The fields map one-to-one and onto the declared options.
ExactMapping(c) ==
    LET fs == DeclaredFields(c.protocol_spec)
    IN  /\ \A i \in 1..Len(fs) : \A j \in 1..Len(fs) :
                NormalizedName(c, fs[i]) = NormalizedName(c, fs[j]) => i = j
        /\ {NormalizedName(c, fs[i]) : i \in 1..Len(fs)} = Declared(c)

\* The value-binding statements whose right-hand side is option o.
BindingsOf(o) == {i \in 1..Len(cc_jc) : cc_jc[i].src = "options" /\ cc_jc[i].opt = o}

\* C3: when the fields map one-to-one and onto the declared options under
\* name normalization, neither the unresolved-field nor the unused-option
\* error is raised, and (the field types resolving) compilation returns the
\* source text with every declared option the right-hand side of exactly one
\* value-binding statement.
C3_ExactMappingCompiles ==
    (CcDone /\ ExactMapping(cc_cmd)) =>
        /\ cc_result.what \notin {"Cant map fields", "Unused options"}
        /\ AllTypesResolve(cc_cmd) =>
            /\ cc_result.err = NoErr
            /\ cc_result.text # <<>>
            /\ \A o \in Declared(cc_cmd) : Cardinality(BindingsOf(o)) = 1

C3_Witness ==
    /\ CcDone
    /\ ExactMapping(cc_cmd)
    /\ AllTypesResolve(cc_cmd)
    /\ Cardinality(Declared(cc_cmd)) >= 2
    /\ cc_cmd.field_to_option_map # <<>>
    /\ cc_result.err = NoErr

\* C7: no declared option other than the reserved ones is the right-hand
\* side of the value-binding statements of two distinct fields.
C7_OptionBoundByOneField ==
    \A i \in 1..Len(cc_jc) : \A j \in 1..Len(cc_jc) :
        (/\ cc_jc[i].src = "options"
         /\ cc_jc[j].src = "options"
         /\ cc_jc[i].opt = cc_jc[j].opt
         /\ cc_jc[i].opt \notin ReservedOptions) => cc_jc[i].lhs = cc_jc[j].lhs

\* What does hold: an option is bound twice only by fields that normalize to
\* the same name; the match_window exception never binds a used option.
CcExceptionNeverDoubleBinds ==
    CcDone =>
        \A o \in Declared(cc_cmd) :
            Cardinality(BindingsOf(o)) > 1 =>
                \E i \in 1..Len(cc_json_fields) : \E j \in 1..Len(cc_json_fields) :
                    /\ i # j
                    /\ NormalizedName(cc_cmd, cc_json_fields[i]) = o
                    /\ NormalizedName(cc_cmd, cc_json_fields[j]) = o


(***************************************************************************)
(* Claims about the whole run                                              *)
(***************************************************************************)

RunFailed == run_status = "failed"
FailedAt(kind) == RunFailed /\ Steps[run_pc].kind = kind
PathOf(j) == UnitPath(Steps[j])

\* The units this run has left behind it, and the ones it has not finished.
UnitsDone == {j \in UnitSteps : j < run_pc}
UnitsNotDone == {j \in UnitSteps : j >= run_pc}

Occurrences(s, x) == Cardinality({i \in 1..Len(s) : s[i] = x})

\* C4: a run that fails in compiling a command (an unresolved field, an unused
\* option or an unknown type) has rewritten no generated file: the output tree
\* is the one the run started from.
C4_FailedRunLeavesTreeAsBefore ==
    FailedAt("compile") => files = files0

\* C5: when wrapped_kittens fails (the wrapper script is absent or has no
\* wrapped_kittens line) no generated file has been written by the run and
\* the changed list is empty.
C5_MissingResourceAbortsBeforeOutput ==
    FailedAt("wrapped_kittens") => (files = files0 /\ changed = <<>>)

\* C6: a unit that has completed wrote its file, and put its path once in
\* changed, exactly when the banner and the rendered content differ from what
\* the file held (nothing, when it was missing); otherwise the file is as it
\* was and the path is not in changed.  A complete run that follows a
\* complete run rewrites nothing and prints an empty changed list.
C6_WritesIffContentDiffers ==
    /\ \A j \in UnitsDone :
        LET p == PathOf(j) IN
        /\ p \in DOMAIN run_new
        /\ IF ReadOrig(files0[p]) # run_new[p]
           THEN files[p] = File(run_new[p]) /\ Occurrences(changed, p) = 1
           ELSE files[p] = files0[p] /\ Occurrences(changed, p) = 0
    /\ (run_prev = "done" /\ run_status = "done")
        => (files = files0 /\ changed = <<>> /\ console = << <<>> >>)

\* A second complete run, after a first one that found some files stale and
\* others up to date.
C6_Witness ==
    /\ run_n = 2
    /\ run_prev = "done"
    /\ run_status = "done"
    /\ run_env.disk = "mixed"

\* A run that fails has printed nothing, has sys.stdout back on the console,
\* has left the file of the failing step and of every later unit as it was,
\* and has completed every unit before it.
RunAbortFrame ==
    RunFailed =>
        /\ console = <<>>
        /\ sys_stdout = "console"
        /\ run_raised # NoErr
        /\ \A j \in UnitsNotDone :
            PathOf(j) \notin DOMAIN run_new /\ files[PathOf(j)] = files0[PathOf(j)]
        /\ \A j \in UnitsDone : files[PathOf(j)] = File(run_new[PathOf(j)])
        /\ Range(changed) = {PathOf(j) : j \in {i \in UnitsDone : files[PathOf(i)] # files0[PathOf(i)]}}


(***************************************************************************)
(* Claims about the JSON field model                                       *)
(***************************************************************************)

HasColon(line) == \E i \in 1..Len(line) : line[i] = ":"
ColonLines(lines) == SelectSeq(lines, HasColon)
Before(line, i) == SubSeq(line, 1, i - 1)
Between(line, i, j) == SubSeq(line, i + 1, j - 1)

\* name[+]/type: text, with a name and a type the mapper resolves
WellFormedLine(line) ==
    \E i, j \in 1..Len(line) :
        /\ i < j
        /\ line[i] = "/" /\ line[j] = ":"
        /\ \A k \in 1..(j - 1) : line[k] # ":"
        /\ \A k \in 1..(i - 1) : line[k] # "/"
        /\ Before(line, i) \notin {<<>>, <<"+">>}
        /\ Resolvable(SplitOn(Between(line, i, j), "."))

WellFormedBlock(lines) ==
    \A n \in 1..Len(lines) : HasColon(lines[n]) => WellFormedLine(lines[n])

\* The record is what the claim reads off the line: the name before the first
\* "/" less its trailing "+", required when the "+" is there, the type
\* between the first "/" and the first ":".
ReadsAs(line, f) ==
    \E i, j \in 1..Len(line) :
        /\ line[i] = "/" /\ line[j] = ":"
        /\ \A k \in 1..(j - 1) : line[k] # ":"
        /\ \A k \in 1..(i - 1) : line[k] # "/"
        /\ f.required = (line[i - 1] = "+")
        /\ f.field = (IF line[i - 1] = "+" THEN Before(line, i - 1) ELSE Before(line, i))
        /\ f.field_type = Between(line, i, j)

\* The name with only its first character in upper case.
FirstCharUpper ==
    (<<"a">> :> "A") @@ (<<"match">> :> "Match") @@ (MatchWindowField :> "Match_window")

\* C11: for a well-formed block the parse loop does not raise and leaves one
\* field per line with a colon, in the order of the lines, none for the other
\* lines; each field has the name, the required flag and the type the line
\* reads as, and the name with its first character upper-cased as identifier.
C11_OneFieldPerColonLine ==
    (cc_pc \notin {"options", "parse"} /\ WellFormedBlock(cc_cmd.protocol_spec)) =>
        LET colon == ColonLines(cc_cmd.protocol_spec)
        IN  /\ cc_result.err \notin {TypeErr, KeyErr, ValueErr}
            /\ Len(cc_json_fields) = Len(colon)
            /\ \A n \in 1..Len(colon) :
                /\ ReadsAs(colon[n], cc_json_fields[n])
                /\ cc_json_fields[n].struct_field_name = FirstCharUpper[cc_json_fields[n].field]

\* A required field and match_window, parsed from a block of two lines.
C11_Witness ==
    /\ cc_pc = "done"
    /\ Len(cc_json_fields) = 2
    /\ cc_json_fields[1].required
    /\ cc_json_fields[1].field = <<"a">>
    /\ cc_json_fields[2].field = MatchWindowField
    /\ cc_json_fields[2].struct_field_name = "Match_window"
    /\ ~cc_json_fields[2].required


(***************************************************************************)
(* Claims about the match_window exception and the binding statements      *)
(***************************************************************************)

UnhandledNames == {cc_unhandled[i].field : i \in 1..Len(cc_unhandled)}

\* The statements that take their value from an option.
OptionBindings(jc) == {i \in 1..Len(jc) : jc[i].src = "options"}

\* match_window is unresolved, Match is declared and no binding uses Match.
ExceptionApplies ==
    /\ MatchWindowField \in UnhandledNames
    /\ "Match" \in Declared(cc_cmd)
    /\ \A i \in OptionBindings(cc_jc) : cc_jc[i].opt # "Match"

\* The step of the exception: when it applies, one statement that binds
\* Match_window to Match is added, Match is marked used and match_window,
\* alone, leaves the unresolved fields; when it does not, nothing changes.
ExceptionStep ==
    cc_pc = "match_window" =>
        IF ExceptionApplies
        THEN /\ Len(cc_jc') = Len(cc_jc) + 1
             /\ SubSeq(cc_jc', 1, Len(cc_jc)) = cc_jc
             /\ cc_jc'[Len(cc_jc')].lhs = "Match_window"
             /\ cc_jc'[Len(cc_jc')].src = "options"
             /\ cc_jc'[Len(cc_jc')].opt = "Match"
             /\ cc_used_options' = cc_used_options \cup {"Match"}
             /\ {cc_unhandled'[i].field : i \in 1..Len(cc_unhandled')}
                    = UnhandledNames \ {MatchWindowField}
        ELSE UNCHANGED <<cc_jc, cc_used_options, cc_unhandled>>

\* What follows the exception: a match_window left unresolved aborts the
\* compilation with the error that names it, and an unused-option error never
\* names an option marked used.
ExceptionOutcome ==
    (CcDone /\ cc_result.err \notin {TypeErr, KeyErr, ValueErr}) =>
        /\ MatchWindowField \in UnhandledNames =>
            /\ cc_result.err = SysExit
            /\ cc_result.what = "Cant map fields"
            /\ MatchWindowField \in Range(cc_result.fields)
            /\ cc_result.cmd = cc_cmd.name
        /\ cc_result.what = "Unused options" => cc_result.options \cap cc_used_options = {}

\* C12: an unresolved match_window is bound to Match exactly when Match is
\* declared and not used by another field's binding; bound, it marks Match
\* used and leaves the unresolved fields; otherwise it stays unresolved and
\* compilation aborts naming it; no other field is resolved by the exception.
C12_MatchWindowException == [][ExceptionStep]_vars /\ []ExceptionOutcome

\* The exception has bound match_window: no rename and no MatchWindow option
\* could have bound it in the loop over the fields.
C12_Witness ==
    /\ CcDone
    /\ cc_result.err = NoErr
    /\ cc_cmd.field_to_option_map = <<>>
    /\ "MatchWindow" \notin Declared(cc_cmd)
    /\ \E i \in OptionBindings(cc_jc) : cc_jc[i].lhs = "Match_window" /\ cc_jc[i].opt = "Match"


\* The fields whose computed name is a declared option, in order.
RECURSIVE MatchedFields(_, _)
MatchedFields(c, fields) ==
    IF fields = <<>> THEN <<>>
    ELSE (IF NormalizedName(c, Head(fields)) \in Declared(c) THEN <<Head(fields)>> ELSE <<>>)
         \o MatchedFields(c, Tail(fields))

\* The field types whose value is passed through an escaping call.
EscapedTypes == {<<"str">>, <<"list", ".", "str">>, <<"dict", ".", "str">>}

\* The step of the loop over the fields: one statement is added for each
\* field whose computed name is a declared option, in order; it assigns the
\* field from that option, through a call exactly when the type is one of
\* the escaped types; the options marked used are the ones so bound.
BindStep ==
    cc_pc = "bind" =>
        LET matched == MatchedFields(cc_cmd, cc_json_fields)
            new == SubSeq(cc_jc', Len(cc_jc) + 1, Len(cc_jc'))
        IN  /\ SubSeq(cc_jc', 1, Len(cc_jc)) = cc_jc
            /\ Len(new) = Len(matched)
            /\ \A n \in 1..Len(matched) :
                /\ new[n].lhs = FirstCharUpper[matched[n].field]
                /\ new[n].src = "options"
                /\ new[n].opt = NormalizedName(cc_cmd, matched[n])
                /\ (new[n].fn # "") = (matched[n].field_type \in EscapedTypes)
            /\ cc_used_options' = {NormalizedName(cc_cmd, matched[n]) : n \in 1..Len(matched)}

\* C13: for every field whose computed name matches a declared option
\* exactly one binding statement is emitted and the option is marked used;
\* its right-hand side is an escaping call when the field type is str,
\* list.str or dict.str and the plain option value for any other type.
C13_BindingStatementShape == [][BindStep]_vars

\* A list.str field bound through its escaping call and an int field bound
\* by plain assignment.
C13_Witness ==
    /\ cc_pc \in {"match_window", "check", "done"}
    /\ \E i, j \in OptionBindings(cc_jc) :
        /\ cc_jc[i].fn = "escape_list_of_strings" /\ cc_jc[i].opt = "Match"
        /\ cc_jc[j].fn = "" /\ cc_jc[j].opt = "A"
    /\ \E n \in 1..Len(cc_json_fields) : cc_json_fields[n].field_type = <<"int">>


(***************************************************************************)
(* Claims about a unit that fails                                          *)
(***************************************************************************)

\* The unit a failed run was at: the unit whose body raised, or the unit of
\* the command that did not compile.
FailedUnit ==
    IF Steps[run_pc].kind = "unit" THEN run_pc
    ELSE IF Steps[run_pc].kind = "compile" THEN run_pc + 1
    ELSE 0

\* The step in which the exception is raised leaves sys.stdout on the stream
\* it was on before the unit, and changes neither a file nor changed.
UnitRaiseStep ==
    (run_status = "running" /\ run_status' = "failed") =>
        /\ sys_stdout' = "console"
        /\ files' = files
        /\ changed' = changed

\* While a body runs sys.stdout is the buffer; after the failure the file of
\* the failed unit is as it was when the run started, missing if it was
\* missing, its path is not in changed, and the units completed before it
\* hold what they rendered.
UnitRaiseOutcome ==
    /\ (run_status = "running" /\ run_in_unit) => sys_stdout = "buf"
    /\ (RunFailed /\ FailedUnit # 0) =>
        /\ sys_stdout = "console"
        /\ files[PathOf(FailedUnit)] = files0[PathOf(FailedUnit)]
        /\ PathOf(FailedUnit) \notin Range(changed)
        /\ \A j \in UnitsDone : files[PathOf(j)] = File(run_new[PathOf(j)])

\* C14: when the body of a unit raises, sys.stdout is restored, the file of
\* the unit is neither created nor modified, its path is not appended to
\* changed, and the files of the units completed earlier are unaffected.
C14_FailedUnitLeavesNoTrace == [][UnitRaiseStep]_vars /\ []UnitRaiseOutcome

\* A kitten without docs: its body raised after earlier units were written.
C14_Witness ==
    /\ RunFailed
    /\ Steps[run_pc].what = "kitten"
    /\ run_raised = NoneTypeErr
    /\ changed # <<>>
    /\ ~files[PathOf(run_pc)].exists

=============================================================================
